---- MODULE Spec2Model ----
(***************************************************************************)
(* Model of the two crawlers of the repository:                            *)
(*   linkweb.py  - the mapping crawl (visited / frontier / edges / tree)   *)
(*   scraper.py  - the scraping crawl (visited / frontier / written files) *)
(* and of the Markdown transducer of scraper.py (inline_md / block_md).    *)
(*                                                                         *)
(* A URL is the record urllib.parse.urlparse returns for it: scheme,       *)
(* netloc, path and fragment.  A path and every other Python string is a   *)
(* sequence of tokens; a token is one whitespace character (" ", "\n") or  *)
(* a run of non-whitespace characters ("/", "about", ".pdf", "-", "One").  *)
(***************************************************************************)
EXTENDS Integers, Sequences, FiniteSets, TLC

VARIABLES
    prog,          \* which program runs: "linkweb" or "scraper"
    MAX_PAGES,     \* the page-count ceiling of the run
    pc,            \* position of crawl(): "loop", "fetch", "links", "done"
    visited,       \* visited: set[str]
    frontier,      \* frontier: deque[str]
    edges,         \* linkweb: edges: dict[str, set[str]] (defaultdict)
    tree,          \* linkweb: tree: dict, as the set of its key paths
    url,           \* the URL dequeued by the current iteration
    hrefs,         \* what the last fetch / link discovery returned
    files,         \* scraper: files written under OUTPUT_ROOT, path -> content
    pages_scraped, \* scraper: pages_scraped counter
    links_seen,    \* scraper: links_seen counter
    log,           \* the [timeout] / [error] lines printed so far
    order,         \* history: URLs in the order they were added to visited
    fetch_log,     \* history: URLs in the order the renderer was invoked
    skips,         \* history: URLs discarded at dequeue (already visited)
    discovered,    \* history: <<page, link>> for every link a page returned
    doc,           \* transducer: the document tree handed to block_md
    md,            \* transducer: the text block_md returned for doc
    ret,           \* the values returned by the function calls made so far
    session        \* the renderer: playwright driver and browser of crawl()

vars == <<prog, MAX_PAGES, pc, visited, frontier, edges, tree, url, hrefs,
          files, pages_scraped, links_seen, log, order, fetch_log, skips,
          discovered, doc, md, ret, session>>

\* the variables of the transducer, which a crawl step leaves alone
md_vars == <<doc, md>>

---------------------------------------------------------------------------
(* Bounds of the model *)

\* largest ceiling a run is started with
MaxCeiling == 4

\* the ceilings a run is started with: none, one or two pages, and the largest
Ceilings == { c \in 0..MaxCeiling : c <= 2 \/ c = MaxCeiling }

\* most anchors a fetched page holds
MaxLinks == 3

\* most items of a list of a document
MaxItems == 2

\* deepest nesting of lists inside list items of a document
MaxNest == 2

---------------------------------------------------------------------------
(* Generic string helpers (Python str methods on token sequences) *)

\* str.startswith(prefix)
StartsWith(s, prefix) ==
    /\ Len(prefix) <= Len(s)
    /\ SubSeq(s, 1, Len(prefix)) = prefix

\* str.endswith(suffix)
EndsWith(s, suffix) ==
    /\ Len(suffix) <= Len(s)
    /\ SubSeq(s, Len(s) - Len(suffix) + 1, Len(s)) = suffix

\* str.lower(), token by token (the only upper-case tokens of the model)
LowerTok(t) ==
    CASE t = ".PDF" -> ".pdf"
      [] t = ".JPG" -> ".jpg"
      [] OTHER -> t

lower(s) == [i \in 1..Len(s) |-> LowerTok(s[i])]

\* str.lstrip("/")
RECURSIVE lstrip_slash(_)
lstrip_slash(s) ==
    IF s # <<>> /\ Head(s) = "/" THEN lstrip_slash(Tail(s)) ELSE s

\* str.split(sep): the list of pieces between the sep tokens
RECURSIVE split_acc(_, _, _, _)
split_acc(s, sep, cur, acc) ==
    IF s = <<>> THEN Append(acc, cur)
    ELSE IF Head(s) = sep THEN split_acc(Tail(s), sep, <<>>, Append(acc, cur))
    ELSE split_acc(Tail(s), sep, Append(cur, Head(s)), acc)

split(s, sep) == split_acc(s, sep, <<>>, <<>>)

Range(s) == {s[i] : i \in 1..Len(s)}

---------------------------------------------------------------------------
(* CONFIG *)

Host == "sustainability.ucsc.edu"

\* BASE_URL = "https://sustainability.ucsc.edu" (no path)
BASE_URL == [scheme |-> "https", netloc |-> Host, path |-> <<>>, fragment |-> ""]

\* linkweb.py ALLOWED_PREFIX = "/"
ALLOWED_PREFIX == <<"/">>

\* scraper.py ALLOWED_PREFIXES = ("/",)
ALLOWED_PREFIXES == <<ALLOWED_PREFIX>>

SKIP_EXT ==
    { <<".pdf">>, <<".doc">>, <<".docx">>, <<".ppt">>, <<".pptx">>, <<".xls">>,
      <<".xlsx">>, <<".csv">>, <<".zip">>, <<".tar">>, <<".gz">>, <<".jpg">>,
      <<".jpeg">>, <<".png">>, <<".gif">> }

---------------------------------------------------------------------------
(* URL HELPERS *)

\* url.split("#", 1)[0]
strip_fragment(u) == [u EXCEPT !.fragment = ""]

\* variant of is_internal: the binary-extension test is missing
is_internal_no_ext(u) ==
    LET p == strip_fragment(u)
    IN  IF p.scheme \notin {"http", "https"} THEN FALSE
        ELSE IF p.netloc # BASE_URL.netloc THEN FALSE
        ELSE IF ~ StartsWith(p.path, ALLOWED_PREFIX) THEN FALSE
        ELSE TRUE

\* linkweb.py is_internal
is_internal(u) ==
    LET p == strip_fragment(u)
    IN  IF p.scheme \notin {"http", "https"} THEN FALSE
        ELSE IF p.netloc # BASE_URL.netloc THEN FALSE
        ELSE IF ~ StartsWith(p.path, ALLOWED_PREFIX) THEN FALSE
        ELSE IF \E ext \in SKIP_EXT : EndsWith(lower(p.path), ext) THEN FALSE
        ELSE TRUE

\* scraper.py is_allowed
is_allowed(u) ==
    LET p == strip_fragment(u)
    IN  IF p.scheme \notin {"http", "https"} THEN FALSE
        ELSE IF p.netloc # BASE_URL.netloc THEN FALSE
        ELSE IF \E ext \in SKIP_EXT : EndsWith(lower(p.path), ext) THEN FALSE
        ELSE \E i \in 1..Len(ALLOWED_PREFIXES) :
                StartsWith(p.path, ALLOWED_PREFIXES[i])

\* the directory part of a path: everything up to and including the last "/"
RECURSIVE dirname(_)
dirname(path) ==
    IF path = <<>> \/ path[Len(path)] = "/" THEN path
    ELSE dirname(SubSeq(path, 1, Len(path) - 1))

\* urllib.parse.urljoin(base, ref) for the reference shapes of the model:
\* a reference with a scheme is kept, a network-path reference ("//host/p")
\* takes the base's scheme, an absolute path replaces the base's path, a
\* relative path is merged with the base's directory, an empty path keeps
\* the base's path.
urljoin(base, ref) ==
    IF ref.scheme # "" THEN ref
    ELSE IF ref.netloc # "" THEN [ref EXCEPT !.scheme = base.scheme]
    ELSE IF ref.path = <<>> THEN
        [base EXCEPT !.fragment = ref.fragment]
    ELSE IF Head(ref.path) = "/" THEN
        [base EXCEPT !.path = ref.path, !.fragment = ref.fragment]
    ELSE
        [base EXCEPT !.path = (IF dirname(base.path) = <<>> THEN <<"/">>
                               ELSE dirname(base.path)) \o ref.path,
                     !.fragment = ref.fragment]

\* variant of normalise: a "/" is put behind the path of every URL
normalise_slash(u) ==
    LET j == urljoin(BASE_URL, u)
    IN  strip_fragment([j EXCEPT !.path = Append(@, "/")])

\* variant of normalise: the fragment is kept
normalise_keep_fragment(u) ==
    LET v == IF u.scheme = "" /\ u.netloc # ""
             THEN [u EXCEPT !.scheme = "https"]
             ELSE u
    IN  urljoin(BASE_URL, v)

\* linkweb.py normalise
normalise(u) ==
    LET v == IF u.scheme = "" /\ u.netloc # ""      \* url.startswith("//")
             THEN [u EXCEPT !.scheme = "https"]     \* "https:" + url
             ELSE u
    IN  strip_fragment(urljoin(BASE_URL, v))

\* scraper.py url_to_path(url, suffix=...): the path below OUTPUT_ROOT
url_to_path(u, suffix) ==
    LET p     == strip_fragment(u)
        path0 == IF p.path = <<>> THEN <<"/">> ELSE p.path
        path1 == IF path0[Len(path0)] = "/" THEN Append(path0, "index") ELSE path0
    IN  Append(lstrip_slash(path1), suffix)

\* linkweb.py insert_path: the key paths the call adds to tree
insert_path(t, u) ==
    LET stripped == lstrip_slash(u.path)
        path     == IF stripped = <<>> THEN <<"index">> ELSE stripped
        parts    == split(path, "/")
    IN  t \cup { SubSeq(parts, 1, k) : k \in 1..Len(parts) }

---------------------------------------------------------------------------
(* The site: the a[href] values (e.href, absolute) the browser can return *)

Root     == [scheme |-> "https", netloc |-> Host, path |-> <<"/">>, fragment |-> ""]
About    == [scheme |-> "https", netloc |-> Host, path |-> <<"/", "about">>, fragment |-> ""]
NewsTop  == [scheme |-> "https", netloc |-> Host, path |-> <<"/", "news", "/">>, fragment |-> "top"]
External == [scheme |-> "https", netloc |-> "external.com", path |-> <<"/">>, fragment |-> ""]
Report   == [scheme |-> "https", netloc |-> Host, path |-> <<"/", "report", ".pdf">>, fragment |-> ""]

News     == strip_fragment(NewsTop)

\* the anchors of the site, in document order; a page holds a subsequence
Anchors == <<About, NewsTop, Root, External, Report>>

\* the anchors at the positions S, in document order
AnchorsAt(S) ==
    LET F[i \in 0..Len(Anchors)] ==
            IF i = 0 THEN <<>>
            ELSE IF i \in S THEN Append(F[i - 1], Anchors[i])
            ELSE F[i - 1]
    IN  F[Len(Anchors)]

\* every list of hrefs page.eval_on_selector_all("a[href]", ...) can return
PageHrefs ==
    { AnchorsAt(S) : S \in { T \in SUBSET (1..Len(Anchors)) : Cardinality(T) <= MaxLinks } }

\* the renderer's failures: PlaywrightTimeout, any other Exception
FailureKinds == {"timeout", "error"}

---------------------------------------------------------------------------
(* The renderer of crawl(): the playwright driver and its browser *)

\* before crawl() reaches its async with
NoSession == [pw |-> "none", browser |-> "none", entered |-> 0, exited |-> 0]

\* async with async_playwright() as pw: the driver is started
aenter(s) == [s EXCEPT !.pw = "started", !.entered = @ + 1]

\* browser = await pw.chromium.launch(headless=True), its context and page
launch(s) == [s EXCEPT !.browser = "open"]

\* await browser.close()
browser_close(s) == [s EXCEPT !.browser = "closed"]

\* variant of aexit: the driver is left running
aexit_leak(s) == s

\* the end of the async with block, reached by falling out of it or by an
\* exception passing through it: the driver is stopped, and a browser still
\* open goes down with the driver it belongs to
aexit(s) ==
    [s EXCEPT !.pw = "stopped", !.exited = @ + 1,
              !.browser = IF @ = "open" THEN "killed" ELSE @]

---------------------------------------------------------------------------
(* linkweb.py crawl() *)

\* state after lines 113-116: visited, frontier, edges, tree
linkweb_Init ==
    /\ prog = "linkweb"
    /\ visited = {}
    /\ frontier = <<BASE_URL>>
    /\ edges = <<>>
    /\ tree = {}

\* variant of popleft: deque.pop(), the item taken from the tail
pop_right(q) == [item |-> q[Len(q)], rest |-> SubSeq(q, 1, Len(q) - 1)]

\* deque.popleft(): the item removed and the deque left
popleft(q) == [item |-> Head(q), rest |-> Tail(q)]

\* variant of loop_test: the ceiling compared with <= instead of <
loop_test_le == frontier # <<>> /\ Cardinality(visited) <= MAX_PAGES

\* while frontier and len(visited) < MAX_PAGES
loop_test == frontier # <<>> /\ Cardinality(visited) < MAX_PAGES

\* variant of linkweb_skip: the visited test is dropped and the URL re-fetched
linkweb_skip_refetch ==
    /\ prog = "linkweb" /\ pc = "loop" /\ loop_test
    /\ popleft(frontier).item \in visited
    /\ frontier' = popleft(frontier).rest
    /\ url' = popleft(frontier).item
    /\ fetch_log' = Append(fetch_log, popleft(frontier).item)
    /\ pc' = "fetch"
    /\ UNCHANGED <<md_vars, ret, session, skips, prog, MAX_PAGES, visited, edges, tree, hrefs,
                   files, pages_scraped, links_seen, log, order, discovered>>

\* variant of linkweb_skip: break instead of continue
linkweb_skip_break ==
    /\ prog = "linkweb" /\ pc = "loop" /\ loop_test
    /\ popleft(frontier).item \in visited
    /\ frontier' = popleft(frontier).rest
    /\ url' = popleft(frontier).item
    /\ skips' = Append(skips, url')
    /\ pc' = "done"
    /\ UNCHANGED <<md_vars, ret, session, prog, MAX_PAGES, visited, edges, tree, hrefs, files,
                   pages_scraped, links_seen, log, order, fetch_log, discovered>>

\* lines 124-126: url = frontier.popleft(); if url in visited: continue
linkweb_skip ==
    /\ prog = "linkweb" /\ pc = "loop" /\ loop_test
    /\ popleft(frontier).item \in visited
    /\ frontier' = popleft(frontier).rest
    /\ url' = popleft(frontier).item
    /\ skips' = Append(skips, url')
    /\ UNCHANGED <<md_vars, ret, session, prog, MAX_PAGES, pc, visited, edges, tree, hrefs, files,
                   pages_scraped, links_seen, log, order, fetch_log, discovered>>

\* lines 124-131: popleft, visited.add(url), insert_path(tree, url), call fetch
linkweb_visit ==
    /\ prog = "linkweb" /\ pc = "loop" /\ loop_test
    /\ popleft(frontier).item \notin visited
    /\ frontier' = popleft(frontier).rest
    /\ url' = popleft(frontier).item
    /\ visited' = visited \cup {popleft(frontier).item}
    /\ tree' = insert_path(tree, popleft(frontier).item)
    /\ order' = Append(order, popleft(frontier).item)
    /\ fetch_log' = Append(fetch_log, popleft(frontier).item)
    /\ pc' = "fetch"
    /\ UNCHANGED <<md_vars, ret, session, skips, prog, MAX_PAGES, edges, hrefs, files, pages_scraped,
                   links_seen, log, discovered>>

\* variant of linkweb_for_hrefs: the edge is keyed by its destination
linkweb_for_hrefs_by_dst(hs) ==
    /\ edges' = [k \in DOMAIN edges \cup Range(hs) |->
                    (IF k \in DOMAIN edges THEN edges[k] ELSE {})
                    \cup (IF k \in Range(hs) THEN {url} ELSE {})]
    /\ LET admit(h) == is_internal(h) /\ h \notin visited
       IN  frontier' = frontier \o SelectSeq(hs, admit)
    /\ discovered' = discovered \cup { <<url, h>> : h \in Range(hs) }
    /\ hrefs' = hs

\* lines 131-134: the for loop over what fetch returned
linkweb_for_hrefs(hs) ==
    /\ edges' = IF hs = <<>> THEN edges
                ELSE [k \in DOMAIN edges \cup {url} |->
                        IF k = url
                        THEN (IF url \in DOMAIN edges THEN edges[url] ELSE {})
                             \cup Range(hs)
                        ELSE edges[k]]
    /\ LET admit(h) == is_internal(h) /\ h \notin visited
       IN  frontier' = frontier \o SelectSeq(hs, admit)
    /\ discovered' = discovered \cup { <<url, h>> : h \in Range(hs) }
    /\ hrefs' = hs

\* fetch lines 73-77 succeed: return [normalise(h) for h in hrefs]
linkweb_fetch_ok ==
    /\ prog = "linkweb" /\ pc = "fetch"
    /\ \E raw \in PageHrefs :
          linkweb_for_hrefs([i \in 1..Len(raw) |-> normalise(raw[i])])
    /\ pc' = "loop"
    /\ UNCHANGED <<md_vars, ret, session, skips, prog, MAX_PAGES, visited, tree, url, files, pages_scraped,
                   links_seen, log, order, fetch_log>>

\* variant of linkweb_fetch_fail: a failed fetch ends the crawl
linkweb_fetch_fail_fatal ==
    /\ prog = "linkweb" /\ pc = "fetch"
    /\ \E kind \in FailureKinds : log' = log \cup { <<kind, url>> }
    /\ linkweb_for_hrefs(<<>>)
    /\ pc' = "done"
    /\ UNCHANGED <<md_vars, ret, session, skips, prog, MAX_PAGES, visited, tree, url, files,
                   pages_scraped, links_seen, order, fetch_log>>

\* fetch lines 78-82: the exception is printed and [] is returned
linkweb_fetch_fail ==
    /\ prog = "linkweb" /\ pc = "fetch"
    /\ \E kind \in FailureKinds : log' = log \cup { <<kind, url>> }
    /\ linkweb_for_hrefs(<<>>)
    /\ pc' = "loop"
    /\ UNCHANGED <<md_vars, ret, session, skips, prog, MAX_PAGES, visited, tree, url, files, pages_scraped,
                   links_seen, order, fetch_log>>

\* the while condition is false: browser.close() and the outputs follow
linkweb_exit ==
    /\ prog = "linkweb" /\ pc = "loop" /\ ~ loop_test
    /\ session' = aexit(browser_close(session))
    /\ pc' = "done"
    /\ UNCHANGED <<md_vars, ret, skips, prog, MAX_PAGES, visited, frontier, edges, tree, url, hrefs,
                   files, pages_scraped, links_seen, log, order, fetch_log,
                   discovered>>

---------------------------------------------------------------------------
(* scraper.py crawl() *)

\* the reference "/" of ALLOWED_PREFIXES, as urljoin parses it
PrefixRef(pref) == [scheme |-> "", netloc |-> "", path |-> pref, fragment |-> ""]

\* state after lines 161-165
scraper_Init ==
    /\ prog = "scraper"
    /\ visited = {}
    /\ frontier = [i \in 1..Len(ALLOWED_PREFIXES) |->
                     urljoin(BASE_URL, PrefixRef(ALLOWED_PREFIXES[i]))]
    /\ edges = <<>>
    /\ tree = {}

\* lines 173-175: url = strip_fragment(frontier.popleft()); if url in visited: continue
scraper_skip ==
    /\ prog = "scraper" /\ pc = "loop" /\ loop_test
    /\ strip_fragment(popleft(frontier).item) \in visited
    /\ frontier' = popleft(frontier).rest
    /\ url' = strip_fragment(popleft(frontier).item)
    /\ skips' = Append(skips, url')
    /\ UNCHANGED <<md_vars, ret, session, prog, MAX_PAGES, pc, visited, edges, tree, hrefs, files,
                   pages_scraped, links_seen, log, order, fetch_log, discovered>>

\* lines 173-178: popleft, visited.add(url), call fetch_page
scraper_visit ==
    /\ prog = "scraper" /\ pc = "loop" /\ loop_test
    /\ strip_fragment(popleft(frontier).item) \notin visited
    /\ frontier' = popleft(frontier).rest
    /\ url' = strip_fragment(popleft(frontier).item)
    /\ visited' = visited \cup {strip_fragment(popleft(frontier).item)}
    /\ order' = Append(order, strip_fragment(popleft(frontier).item))
    /\ fetch_log' = Append(fetch_log, strip_fragment(popleft(frontier).item))
    /\ pc' = "fetch"
    /\ UNCHANGED <<md_vars, ret, session, skips, prog, MAX_PAGES, edges, tree, hrefs, files,
                   pages_scraped, links_seen, log, discovered>>

\* fetch_page lines 71-75 and crawl lines 179-180: None is returned; continue
scraper_fetch_fail ==
    /\ prog = "scraper" /\ pc = "fetch"
    /\ \E kind \in FailureKinds : log' = log \cup { <<kind, url>> }
    /\ pc' = "loop"
    /\ UNCHANGED <<md_vars, ret, session, skips, prog, MAX_PAGES, visited, frontier, edges, tree, url,
                   hrefs, files, pages_scraped, links_seen, order, fetch_log,
                   discovered>>

\* variant of write_text: the write is lost
write_text_lost(fs, path, content) == fs

\* write_text: the file at path now holds content
write_text(fs, path, content) ==
    [q \in DOMAIN fs \cup {path} |-> IF q = path THEN content ELSE fs[q]]

\* lines 178-200: html is returned; the RAW and CLEAN files are written, then
\* the links are asked of the page.  The document and its Markdown are held
\* by the name of the page they come from.
scraper_fetch_ok ==
    /\ prog = "scraper" /\ pc = "fetch"
    /\ files' = write_text(write_text(files, url_to_path(url, ".txt"), <<"html", url>>),
                           url_to_path(url, ".clean.md"), <<"md", url>>)
    /\ pages_scraped' = pages_scraped + 1
    /\ pc' = "links"
    /\ UNCHANGED <<md_vars, ret, session, skips, prog, MAX_PAGES, visited, frontier, edges, tree, url,
                   hrefs, links_seen, log, order, fetch_log, discovered>>

\* lines 203-208: the for loop over links
scraper_for_links(links) ==
    /\ links_seen' = links_seen + Len(links)
    /\ LET stripped == [i \in 1..Len(links) |-> strip_fragment(links[i])]
           admit(l) == is_allowed(l) /\ l \notin visited
       IN  /\ frontier' = frontier \o SelectSeq(stripped, admit)
           /\ discovered' = discovered \cup { <<url, l>> : l \in Range(stripped) }
    /\ hrefs' = links

\* line 200 succeeds
scraper_links_ok ==
    /\ prog = "scraper" /\ pc = "links"
    /\ \E raw \in PageHrefs : scraper_for_links(raw)
    /\ pc' = "loop"
    /\ UNCHANGED <<md_vars, ret, session, skips, prog, MAX_PAGES, visited, edges, tree, url, files,
                   pages_scraped, log, order, fetch_log>>

\* lines 201-202: except Exception: links = []
scraper_links_fail ==
    /\ prog = "scraper" /\ pc = "links"
    /\ scraper_for_links(<<>>)
    /\ pc' = "loop"
    /\ UNCHANGED <<md_vars, ret, session, skips, prog, MAX_PAGES, visited, edges, tree, url, files,
                   pages_scraped, log, order, fetch_log>>

\* the while condition is false: browser.close() and the summary follow
scraper_exit ==
    /\ prog = "scraper" /\ pc = "loop" /\ ~ loop_test
    /\ session' = aexit(browser_close(session))
    /\ pc' = "done"
    /\ UNCHANGED <<md_vars, ret, skips, prog, MAX_PAGES, visited, frontier, edges, tree, url,
                   hrefs, files, pages_scraped, links_seen, log, order, fetch_log,
                   discovered>>

---------------------------------------------------------------------------
(* MARKDOWN CONVERSION (scraper.py) *)

\* A node of the document tree.  A NavigableString is a node named "#text"
\* holding its characters; a Tag has a name, an href attribute (<<>> when
\* it has none) and children.
Text(t) == [name |-> "#text", text |-> t, href |-> <<>>, children |-> <<>>]

Tag(n, kids) == [name |-> n, text |-> <<>>, href |-> <<>>, children |-> kids]

\* isinstance(node, NavigableString)
IsString(node) == node.name = "#text"

BULLET == <<"-", " ">>

INDENT == <<" ", " ">>

\* the characters str.strip() removes
Whitespace == {" ", "\n", "\t", "NBSP"}

\* str.lstrip()
RECURSIVE lstrip(_)
lstrip(s) == IF s # <<>> /\ Head(s) \in Whitespace THEN lstrip(Tail(s)) ELSE s

\* str.rstrip()
RECURSIVE rstrip(_)
rstrip(s) ==
    IF s # <<>> /\ s[Len(s)] \in Whitespace
    THEN rstrip(SubSeq(s, 1, Len(s) - 1)) ELSE s

\* str.strip()
strip(s) == rstrip(lstrip(s))

\* s * n
RECURSIVE repeat(_, _)
repeat(s, n) == IF n <= 0 THEN <<>> ELSE s \o repeat(s, n - 1)

\* variant of join: the separator is written twice
RECURSIVE join_twice(_, _)
join_twice(sep, out) ==
    IF out = <<>> THEN <<>>
    ELSE IF Len(out) = 1 THEN Head(out)
    ELSE Head(out) \o sep \o sep \o join_twice(sep, Tail(out))

\* sep.join(out)
RECURSIVE join(_, _)
join(sep, out) ==
    IF out = <<>> THEN <<>>
    ELSE IF Len(out) = 1 THEN Head(out)
    ELSE Head(out) \o sep \o join(sep, Tail(out))

\* html.unescape, token by token (the character references of the model)
unescape(s) ==
    [i \in 1..Len(s) |->
        CASE s[i] = "&amp;"  -> "&"
          [] s[i] = "&nbsp;" -> "NBSP"
          [] OTHER -> s[i]]

\* the tokens that begin with the characters "http"
HttpTokens == {"https://example.org/x", "http://example.org/", "httpdocs/page.html"}

\* href.startswith("http")
startswith_http(s) == s # <<>> /\ Head(s) \in HttpTokens

RECURSIVE inline_md(_)

\* ''.join(inline_md(c) for c in node.children)
inline_children(node) ==
    LET F[i \in 0..Len(node.children)] ==
            IF i = 0 THEN <<>> ELSE F[i - 1] \o inline_md(node.children[i])
    IN  F[Len(node.children)]

\* lines 91-96: the anchor case of inline_md
inline_a(node) ==
    LET text == strip(inline_children(node))
        href == strip(node.href)
    IN  IF href # <<>> /\ startswith_http(href) /\ href # text
        THEN <<"[">> \o text \o <<"](">> \o href \o <<")">>
        ELSE text

inline_md(node) ==
    IF IsString(node) THEN unescape(node.text)
    ELSE IF node.name \in {"strong", "b"}
        THEN <<"**">> \o inline_children(node) \o <<"**">>
    ELSE IF node.name \in {"em", "i"}
        THEN <<"*">> \o inline_children(node) \o <<"*">>
    ELSE IF node.name = "a" THEN inline_a(node)
    ELSE IF node.name = "br" THEN <<"\n">>
    ELSE inline_children(node)

\* int(name[1]) for the heading names
heading_level(name) ==
    CASE name = "h1" -> 1 [] name = "h2" -> 2 [] name = "h3" -> 3
      [] name = "h4" -> 4 [] name = "h5" -> 5 [] name = "h6" -> 6

\* f"{i}. ": the decimal numeral of i
Numeral(i) == <<"1", "2", "3", "4", "5", "6", "7", "8", "9">>[i]

RECURSIVE block_md(_, _)

\* ''.join(block_md(c, depth) for c in node.children)
block_children(node, depth) ==
    LET F[i \in 0..Len(node.children)] ==
            IF i = 0 THEN <<>> ELSE F[i - 1] \o block_md(node.children[i], depth)
    IN  F[Len(node.children)]

\* node.find_all("li", recursive=False)
direct_li(node) ==
    LET is_li(c) == c.name = "li" IN SelectSeq(node.children, is_li)

\* variant of block_heading: one newline after the heading
block_heading_one_newline(node) ==
    repeat(<<"#">>, heading_level(node.name)) \o <<" ">> \o inline_md(node) \o <<"\n">>

\* lines 110-112: headings
block_heading(node) ==
    repeat(<<"#">>, heading_level(node.name)) \o <<" ">> \o inline_md(node)
        \o <<"\n", "\n">>

\* lines 115-118: paragraphs
block_para(node, depth) ==
    IF \E i \in 1..Len(node.children) :
          node.children[i].name \in {"p", "div", "ul", "ol", "li", "section"}
    THEN block_children(node, depth)
    ELSE strip(inline_md(node)) \o <<"\n", "\n">>

\* lines 121-125: unordered lists
block_ul(node, depth) ==
    LET lis == direct_li(node)
        out == [i \in 1..Len(lis) |->
                  repeat(INDENT, depth) \o BULLET \o lstrip(block_md(lis[i], depth + 1))]
    IN  join(<<"\n">>, out) \o <<"\n", "\n">>

\* lines 127-131: ordered lists
block_ol(node, depth) ==
    LET lis == direct_li(node)
        out == [i \in 1..Len(lis) |->
                  repeat(INDENT, depth) \o <<Numeral(i), ".", " ">>
                    \o lstrip(block_md(lis[i], depth + 1))]
    IN  join(<<"\n">>, out) \o <<"\n", "\n">>

\* lines 133-138: list items
block_li(node, depth) == strip(block_children(node, depth))

\* lines 102-141
block_md(node, depth) ==
    IF IsString(node) THEN inline_md(node)
    ELSE IF node.name \in {"h1", "h2", "h3", "h4", "h5", "h6"} THEN block_heading(node)
    ELSE IF node.name \in {"p", "div", "section"} THEN block_para(node, depth)
    ELSE IF node.name = "ul" THEN block_ul(node, depth)
    ELSE IF node.name = "ol" THEN block_ol(node, depth)
    ELSE IF node.name = "li" THEN block_li(node, depth)
    ELSE block_children(node, depth)

---------------------------------------------------------------------------
(* The documents handed to the transducer *)

\* the text of the i-th item of a list
ItemWord(i) == <<"One", "Two", "Three", "Four">>[i]

\* <li>word</li>, and the same with white space around the word
PlainLi(i, padded) ==
    Tag("li", <<Text(IF padded THEN <<" ", ItemWord(i), "\n">> ELSE <<ItemWord(i)>>)>>)

\* how a list item holds a nested list: alone, right after its text, after
\* its text and a line break, after its text in a paragraph
NestShapes == {"only", "text", "line", "para"}

NestLi(shape, i, sub) ==
    CASE shape = "only" -> Tag("li", <<sub>>)
      [] shape = "text" -> Tag("li", <<Text(<<ItemWord(i)>>), sub>>)
      [] shape = "line" -> Tag("li", <<Text(<<ItemWord(i), "\n">>), sub>>)
      [] shape = "para" -> Tag("li", <<Tag("p", <<Text(<<ItemWord(i)>>)>>), sub>>)

\* a flat list of k items under the tag name
FlatList(name, k, padded) == Tag(name, [i \in 1..k |-> PlainLi(i, padded)])

\* the unordered lists nested at most d deep: up to MaxItems items, one of
\* which may hold a nested list
RECURSIVE Lists(_)
Lists(d) ==
    LET flat == { FlatList("ul", k, FALSE) : k \in 1..MaxItems }
    IN  IF d = 0 THEN flat
        ELSE flat \cup
             { Tag("ul", [i \in 1..kp[1] |->
                            IF i = kp[2] THEN NestLi(shape, i, sub)
                            ELSE PlainLi(i, FALSE)]) :
                 kp \in { x \in (1..MaxItems) \X (1..MaxItems) : x[2] <= x[1] },
                 shape \in NestShapes,
                 sub \in Lists(d - 1) }

ListDocs == Lists(MaxNest)

HeadingNames == {"h1", "h2", "h3", "h4", "h5", "h6"}

HeadingTexts == { <<"Title">>, <<"Our", " ", "Work">> }

\* a container holding a heading followed by a flat list
HeadingDocs ==
    { Tag(box, << Tag(h, <<Text(t)>>), FlatList(list, k, padded) >>) :
        box \in {"div", "section", "body"}, h \in HeadingNames, t \in HeadingTexts,
        list \in {"ul", "ol"}, k \in 1..MaxItems, padded \in BOOLEAN }

Docs == ListDocs \cup HeadingDocs

---------------------------------------------------------------------------
(* The transducer specification: block_md applied to a document *)

\* clean_html line 150: block_md(body), depth 0
render ==
    /\ prog = "transducer" /\ pc = "render"
    /\ md' = block_md(doc, 0)
    /\ pc' = "rendered"
    /\ UNCHANGED <<prog, MAX_PAGES, visited, frontier, edges, tree, url, hrefs,
                   files, pages_scraped, links_seen, log, order, fetch_log, skips,
                   discovered, doc, ret, session>>

---------------------------------------------------------------------------
(* The crawl specification *)

\* an absent value (Python None / not yet assigned)
None == [scheme |-> "", netloc |-> "", path |-> <<>>, fragment |-> ""]

Init ==
    /\ MAX_PAGES \in Ceilings
    /\ (linkweb_Init \/ scraper_Init)
    /\ pc = "loop"
    /\ url = None
    /\ hrefs = <<>>
    /\ files = <<>>
    /\ pages_scraped = 0
    /\ links_seen = 0
    /\ log = {}
    /\ order = <<>>
    /\ fetch_log = <<>>
    /\ skips = <<>>
    /\ discovered = {}
    /\ doc = <<>>
    /\ md = <<>>
    /\ ret = <<>>
    /\ session = launch(aenter(NoSession))

Next ==
    \/ linkweb_skip
    \/ linkweb_visit
    \/ linkweb_fetch_ok
    \/ linkweb_fetch_fail
    \/ linkweb_exit
    \/ scraper_skip
    \/ scraper_visit
    \/ scraper_fetch_ok
    \/ scraper_fetch_fail
    \/ scraper_links_ok
    \/ scraper_links_fail
    \/ scraper_exit

Spec == Init /\ [][Next]_vars

MdInit ==
    /\ prog = "transducer"
    /\ pc = "render"
    /\ doc \in Docs
    /\ md = <<>>
    /\ ret = <<>>
    /\ session = NoSession
    /\ MAX_PAGES = 0
    /\ visited = {}
    /\ frontier = <<>>
    /\ edges = <<>>
    /\ tree = {}
    /\ url = None
    /\ hrefs = <<>>
    /\ files = <<>>
    /\ pages_scraped = 0
    /\ links_seen = 0
    /\ log = {}
    /\ order = <<>>
    /\ fetch_log = <<>>
    /\ skips = <<>>
    /\ discovered = {}

MdNext == render

MdSpec == MdInit /\ [][MdNext]_vars

---------------------------------------------------------------------------
(* crawl() from its first line, with the failures no handler catches *)

\* async with async_playwright() as pw (linkweb 118, scraper 167)
crawl_enter ==
    /\ prog \in {"linkweb", "scraper"} /\ pc = "start"
    /\ session' = aenter(session)
    /\ pc' = "launch"
    /\ UNCHANGED <<md_vars, ret, skips, prog, MAX_PAGES, visited, frontier, edges,
                   tree, url, hrefs, files, pages_scraped, links_seen, log, order,
                   fetch_log, discovered>>

\* the browser, its context and its page are there (linkweb 119-121)
crawl_launch ==
    /\ prog \in {"linkweb", "scraper"} /\ pc = "launch"
    /\ session' = launch(session)
    /\ pc' = "loop"
    /\ UNCHANGED <<md_vars, ret, skips, prog, MAX_PAGES, visited, frontier, edges,
                   tree, url, hrefs, files, pages_scraped, links_seen, log, order,
                   fetch_log, discovered>>

\* launch, new_context or new_page raises: the browser is not there yet, or
\* it is and its context or page is not
crawl_launch_fail ==
    /\ prog \in {"linkweb", "scraper"} /\ pc = "launch"
    /\ session' \in {session, launch(session)}
    /\ pc' = "raised"
    /\ UNCHANGED <<md_vars, ret, skips, prog, MAX_PAGES, visited, frontier, edges,
                   tree, url, hrefs, files, pages_scraped, links_seen, log, order,
                   fetch_log, discovered>>

\* an exception that is no Exception (a cancellation, an interrupt) is
\* raised while the page is fetched or its links are read: except Exception
\* does not catch it
crawl_raise ==
    /\ prog \in {"linkweb", "scraper"} /\ pc \in {"fetch", "links"}
    /\ pc' = "raised"
    /\ UNCHANGED <<md_vars, ret, session, skips, prog, MAX_PAGES, visited, frontier,
                   edges, tree, url, hrefs, files, pages_scraped, links_seen, log,
                   order, fetch_log, discovered>>

\* scraper 183-193: the raw file is written, writing the clean file raises
scraper_write_fail ==
    /\ prog = "scraper" /\ pc = "fetch"
    /\ files' = write_text(files, url_to_path(url, ".txt"), <<"html", url>>)
    /\ pc' = "raised"
    /\ UNCHANGED <<md_vars, ret, session, skips, prog, MAX_PAGES, visited, frontier,
                   edges, tree, url, hrefs, pages_scraped, links_seen, log, order,
                   fetch_log, discovered>>

\* the exception leaves the async with block and crawl(): browser.close()
\* and the output code behind the loop are not reached
crawl_unwind ==
    /\ prog \in {"linkweb", "scraper"} /\ pc = "raised"
    /\ session' = aexit(session)
    /\ pc' = "failed"
    /\ UNCHANGED <<md_vars, ret, skips, prog, MAX_PAGES, visited, frontier, edges,
                   tree, url, hrefs, files, pages_scraped, links_seen, log, order,
                   fetch_log, discovered>>

\* crawl() is called: its locals are set, the renderer is not started
SessionInit ==
    /\ MAX_PAGES \in Ceilings
    /\ (linkweb_Init \/ scraper_Init)
    /\ pc = "start"
    /\ url = None
    /\ hrefs = <<>>
    /\ files = <<>>
    /\ pages_scraped = 0
    /\ links_seen = 0
    /\ log = {}
    /\ order = <<>>
    /\ fetch_log = <<>>
    /\ skips = <<>>
    /\ discovered = {}
    /\ doc = <<>>
    /\ md = <<>>
    /\ ret = <<>>
    /\ session = NoSession

SessionNext ==
    \/ crawl_enter
    \/ crawl_launch
    \/ crawl_launch_fail
    \/ Next
    \/ crawl_raise
    \/ scraper_write_fail
    \/ crawl_unwind

\* crawl() is one coroutine under asyncio.run: its next step is always taken
SessionSpec == SessionInit /\ [][SessionNext]_vars /\ WF_vars(SessionNext)

---------------------------------------------------------------------------
(* The specifications of the single functions *)

\* the variables of crawl(), untouched when one function is applied alone
crawl_vars == <<MAX_PAGES, visited, frontier, edges, hrefs, files, pages_scraped,
                links_seen, log, order, fetch_log, skips, discovered, session>>

\* no crawl is running
NoCrawl ==
    /\ MAX_PAGES = 0
    /\ visited = {}
    /\ frontier = <<>>
    /\ edges = <<>>
    /\ hrefs = <<>>
    /\ files = <<>>
    /\ pages_scraped = 0
    /\ links_seen = 0
    /\ log = {}
    /\ order = <<>>
    /\ fetch_log = <<>>
    /\ skips = <<>>
    /\ discovered = {}
    /\ session = NoSession

---------------------------------------------------------------------------
(* inline_md applied to an anchor element *)

\* <a href=h> with the children kids
Link(h, kids) == [name |-> "a", text |-> <<>>, href |-> h, children |-> kids]

\* the href attributes of the anchors: none, absolute http and https, padded
\* with spaces, relative, other schemes, and a relative one that begins
\* with the letters http
Hrefs ==
    { <<>>,
      <<"https://example.org/x">>,
      <<"http://example.org/">>,
      <<" ", "https://example.org/x", "\n">>,
      <<"/rel">>,
      <<"mailto:a@example.org">>,
      <<"ftp://example.org/f">>,
      <<"httpdocs/page.html">> }

\* what the anchors hold between their tags
LinkKids ==
    { <<>>,
      <<Text(<<"Home">>)>>,
      <<Text(<<" ", "Home", " ">>)>>,
      <<Text(<<"Read">>), Text(<<" ">>), Text(<<"more">>)>>,
      <<Tag("strong", <<Text(<<"Home">>)>>)>>,
      <<Text(<<"https://example.org/x">>)>>,
      <<Text(<<"http://example.org/">>)>> }

LinkDocs == { Link(h, kids) : h \in Hrefs, kids \in LinkKids }

\* inline_md(node) for an anchor node
render_inline ==
    /\ prog = "transducer" /\ pc = "inline"
    /\ md' = inline_md(doc)
    /\ pc' = "inlined"
    /\ UNCHANGED <<prog, crawl_vars, tree, url, doc, ret>>

InlineInit ==
    /\ prog = "transducer"
    /\ pc = "inline"
    /\ doc \in LinkDocs
    /\ md = <<>>
    /\ ret = <<>>
    /\ tree = {}
    /\ url = None
    /\ NoCrawl

InlineNext == render_inline

InlineSpec == InlineInit /\ [][InlineNext]_vars

---------------------------------------------------------------------------
(* clean_html: the main content of a page as Markdown *)

\* line 151: the least number of characters of an accepted rendering
MIN_CHARS == 200

\* the number of characters of a token: the runs named x199 and x200 stand
\* for 199 and 200 letters, every token not listed is a single character
char_count(tok) ==
    CASE tok = "x199" -> 199
      [] tok = "x200" -> 200
      [] tok = "Fallback" -> 8
      [] tok \in {"Short", "Title"} -> 5
      [] tok = "text" -> 4
      [] tok \in {"One", "Two"} -> 3
      [] OTHER -> 1

\* len(s)
len(s) ==
    LET F[i \in 0..Len(s)] == IF i = 0 THEN 0 ELSE F[i - 1] + char_count(s[i])
    IN  F[Len(s)]

\* <div><p>w</p></div>
Para(w) == Tag("div", <<Tag("p", <<Text(<<w>>)>>)>>)

\* <div><h2>Title</h2><ul><li>One</li><li>Two</li></ul></div>
TitledList ==
    Tag("div", <<Tag("h2", <<Text(<<"Title">>)>>),
                 Tag("ul", <<PlainLi(1, FALSE), PlainLi(2, FALSE)>>)>>)

\* what trafilatura_extract returns: None, an empty text or a text
Extracts ==
    { [none |-> TRUE, s |-> <<>>],
      [none |-> FALSE, s |-> <<>>],
      [none |-> FALSE, s |-> <<"Fallback", " ", "text">>] }

\* A parsed page: what select_one("#main"), select_one(".main-content") and
\* soup.body find (<<>> for None, else <<node>>), and what
\* trafilatura_extract makes of the page.
Htmls ==
    [ main : {<<>>, <<Para("Short")>>, <<Para("x199")>>, <<Para("x200")>>,
              <<TitledList>>},
      main_content : {<<>>, <<Para("Short")>>, <<Para("x200")>>},
      body : {<<>>, <<Tag("body", <<>>)>>, <<Para("Short")>>, <<Para("x200")>>},
      extract : Extracts ]

\* trafilatura_extract(html, include_links=False)
trafilatura_extract(html) == html.extract

\* x or d, for x a text or None and d a text
or_text(x, d) == IF x.none \/ x.s = <<>> THEN d ELSE x.s

\* variant of below_threshold: a rendering of exactly the threshold is short
below_threshold_le(md0) == len(md0) <= MIN_CHARS

\* line 151: len(md) < 200
below_threshold(md0) == len(md0) < MIN_CHARS

\* lines 143-153
clean_html(html) ==
    LET body == IF html.main # <<>> THEN html.main
                ELSE IF html.main_content # <<>> THEN html.main_content
                ELSE html.body
    IN  IF body = <<>>
        THEN or_text(trafilatura_extract(html), <<>>)
        ELSE LET md0 == rstrip(block_md(body[1], 0))
             IN  IF below_threshold(md0)
                 THEN or_text(trafilatura_extract(html), md0)
                 ELSE md0

\* lines 189-190: md = clean_html(html)
clean ==
    /\ prog = "transducer" /\ pc = "clean"
    /\ md' = clean_html(doc)
    /\ pc' = "cleaned"
    /\ UNCHANGED <<prog, crawl_vars, tree, url, doc, ret>>

CleanInit ==
    /\ prog = "transducer"
    /\ pc = "clean"
    /\ doc \in Htmls
    /\ md = <<>>
    /\ ret = <<>>
    /\ tree = {}
    /\ url = None
    /\ NoCrawl

CleanNext == clean

CleanSpec == CleanInit /\ [][CleanNext]_vars

---------------------------------------------------------------------------
(* The URL functions applied to one URL *)

\* the paths of the URLs: none, the root, a page, a directory, a document
\* of a skipped type in lower and upper case, a page below a directory
\* named like an extension, and a path without a leading "/"
UrlPaths ==
    { <<>>,
      <<"/">>,
      <<"/", "about">>,
      <<"/", "about", "/">>,
      <<"/", "report", ".pdf">>,
      <<"/", "report", ".PDF">>,
      <<"/", ".pdf", "/", "info">>,
      <<"/", "a", "/", "b", "/">>,
      <<"about">> }

\* what urlparse can return: behind a host the path is empty or starts
\* with "/"
Urls ==
    { u \in [ scheme : {"https", "http", "mailto", ""},
              netloc : {Host, "external.com", "www.sustainability.ucsc.edu",
                        "sustainability.ucsc.edu:8080", ""},
              path : UrlPaths,
              fragment : {"", "top"} ] :
        u.netloc # "" => (u.path = <<>> \/ Head(u.path) = "/") }

\* is_internal(url)
call_is_internal ==
    /\ prog = "url" /\ pc = "call"
    /\ ret' = <<is_internal(url)>>
    /\ pc' = "is_internal"
    /\ UNCHANGED <<prog, crawl_vars, tree, url, doc, md>>

\* is_allowed(url)
call_is_allowed ==
    /\ prog = "url" /\ pc = "call"
    /\ ret' = <<is_allowed(url)>>
    /\ pc' = "is_allowed"
    /\ UNCHANGED <<prog, crawl_vars, tree, url, doc, md>>

\* normalise(url)
call_normalise ==
    /\ prog = "url" /\ pc = "call"
    /\ ret' = <<normalise(url)>>
    /\ pc' = "normalise"
    /\ UNCHANGED <<prog, crawl_vars, tree, url, doc, md>>

\* normalise(x) for x the URL normalise(url) returned
call_normalise_again ==
    /\ prog = "url" /\ pc = "normalise"
    /\ ret' = Append(ret, normalise(ret[1]))
    /\ pc' = "normalise_again"
    /\ UNCHANGED <<prog, crawl_vars, tree, url, doc, md>>

\* insert_path(tree, url) on an empty tree
call_insert_path ==
    /\ prog = "url" /\ pc = "call"
    /\ tree' = insert_path(tree, url)
    /\ pc' = "insert_path"
    /\ UNCHANGED <<prog, crawl_vars, url, doc, md, ret>>

\* url_to_path(url, ".txt")
call_url_to_path ==
    /\ prog = "url" /\ pc = "call"
    /\ ret' = <<url_to_path(url, ".txt")>>
    /\ pc' = "url_to_path"
    /\ UNCHANGED <<prog, crawl_vars, tree, url, doc, md>>

UrlInit ==
    /\ prog = "url"
    /\ pc = "call"
    /\ url \in Urls
    /\ ret = <<>>
    /\ tree = {}
    /\ doc = <<>>
    /\ md = <<>>
    /\ NoCrawl

UrlNext ==
    \/ call_is_internal
    \/ call_is_allowed
    \/ call_normalise
    \/ call_normalise_again
    \/ call_insert_path
    \/ call_url_to_path

UrlSpec == UrlInit /\ [][UrlNext]_vars

---------------------------------------------------------------------------
(* Properties of the crawl loop *)

\* C1: in every reachable state of either crawl the number of URLs in
\* visited is at most the ceiling MAX_PAGES, for every ceiling >= 0.
C1_VisitedWithinCeiling == Cardinality(visited) <= MAX_PAGES

\* the ceiling stopped a crawl whose frontier still held URLs
C1_Witness ==
    /\ pc = "done" /\ MAX_PAGES > 0
    /\ Cardinality(visited) = MAX_PAGES
    /\ frontier # <<>>

\* C2: in the mapping crawl every source URL that is a key of edges is a
\* member of visited.
C2_EdgeKeysVisited == prog = "linkweb" => DOMAIN edges \subseteq visited

\* two pages have recorded outbound edges
C2_Witness == prog = "linkweb" /\ Cardinality(DOMAIN edges) >= 2

\* no URL occurs twice in the sequence s
NoRepeats(s) == \A i, j \in 1..Len(s) : i # j => s[i] # s[j]

\* C3: the renderer is invoked at most once per URL, and the step that
\* dequeues a URL already in visited discards it: no fetch, and visited,
\* edges and tree are left as they were.
C3_FetchedOnceSkipIsNoOp ==
    /\ [] NoRepeats(fetch_log)
    /\ [][ (pc = "loop" /\ loop_test
              /\ strip_fragment(Head(frontier)) \in visited)
           => /\ fetch_log' = fetch_log
              /\ visited' = visited
              /\ edges' = edges
              /\ tree' = tree
              /\ pc' = "loop"
              /\ frontier' = Tail(frontier) ]_vars

\* a URL enqueued twice was fetched once and discarded at its second dequeue
C3_Witness ==
    /\ skips # <<>>
    /\ \E i \in 1..Len(skips) : skips[i] \in Range(fetch_log)

\* isInScope as the specification states it (scheme, host, prefix, extension)
InScope(u) ==
    /\ u.scheme \in {"http", "https"}
    /\ u.netloc = Host
    /\ u.path # <<>> /\ Head(u.path) = "/"
    /\ u.path[Len(u.path)] \notin {".pdf", ".doc", ".docx", ".ppt", ".pptx", ".xls",
                                   ".xlsx", ".csv", ".zip", ".tar", ".gz", ".jpg",
                                   ".jpeg", ".png", ".gif", ".PDF", ".JPG"}

\* the step of the mapping crawl that processes a successfully fetched page
LinkwebFetchedStep == prog = "linkweb" /\ pc = "fetch" /\ log' = log

\* C4: after a successfully fetched page is processed in the mapping crawl,
\* edges for that page holds every normalised link found on it, in scope or
\* not, and the URLs appended to the frontier tail are exactly the found
\* links that are in scope and not in visited; a seed linking to /about, an
\* external host and /report.pdf enqueues /about alone and has three edges.
C4_EdgesAllFrontierInScope ==
    [][ LinkwebFetchedStep =>
          LET fresh(h) == InScope(h) /\ h \notin visited
          IN  /\ \A h \in Range(hrefs') : url \in DOMAIN edges' /\ h \in edges'[url]
              /\ \A h \in Range(hrefs') : h.fragment = ""
              /\ frontier' = frontier \o SelectSeq(hrefs', fresh)
              /\ (url = BASE_URL /\ hrefs' = <<About, External, Report>>)
                    => /\ frontier' = <<About>>
                       /\ edges'[BASE_URL] = {About, External, Report} ]_vars

\* the seed was fetched and returned /about, the external host and the PDF
C4_Witness ==
    /\ prog = "linkweb" /\ pc = "loop" /\ order = <<BASE_URL>>
    /\ hrefs = <<About, External, Report>>
    /\ frontier = <<About>>
    /\ BASE_URL \in DOMAIN edges /\ edges[BASE_URL] = {About, External, Report}

\* C5: when the renderer fails on a URL the crawl does not stop: the URL
\* stays in visited, no outbound edge is recorded for it, nothing is appended
\* to the frontier by that step and the loop goes on to its next iteration.
C5_FailedFetchNotFatal ==
    [][ (pc = "fetch" /\ log' # log)
        => /\ url \in visited' /\ visited' = visited
           /\ edges' = edges /\ url \notin DOMAIN edges'
           /\ frontier' = frontier
           /\ pc' = "loop" ]_vars

\* a fetch failed and the crawl went on to visit another URL after it
C5_Witness ==
    \E i \in 1..Len(order) :
        /\ i < Len(order)
        /\ \E kind \in FailureKinds : <<kind, order[i]>> \in log


\* the seeds of the running crawl: what the frontier is created with
Seeds ==
    IF prog = "linkweb" THEN {BASE_URL}
    ELSE { urljoin(BASE_URL, PrefixRef(ALLOWED_PREFIXES[i])) :
             i \in 1..Len(ALLOWED_PREFIXES) }

\* the URLs of the site that are in scope
ScopeUrls == { u \in { strip_fragment(Anchors[i]) : i \in 1..Len(Anchors) } : InScope(u) }

\* the in-scope links found so far on successfully fetched pages
ScopeLinks == { e \in discovered : e[2] \in ScopeUrls }

\* the link distance from the set near, itself at distance k from the
\* seeds, to u over links; -1 when u cannot be reached
RECURSIVE DistFrom(_, _, _, _)
DistFrom(u, near, links, k) ==
    IF u \in near THEN k
    ELSE LET next == near \cup { e[2] : e \in { x \in links : x[1] \in near } }
         IN  IF next = near THEN -1 ELSE DistFrom(u, next, links, k + 1)

\* the shortest link distance from the seeds to u
Dist(u) == DistFrom(u, Seeds, ScopeLinks, 0)

\* C6: pages are visited in breadth-first order: of two URLs added to
\* visited, the one visited first is at a shortest link distance from the
\* seeds (over the in-scope links found on fetched pages) no greater than
\* that of the other.
C6_BreadthFirstOrder ==
    LET d == [i \in 1..Len(order) |-> Dist(order[i])]
    IN  /\ \A i \in 1..Len(order) : d[i] >= 0
        /\ \A i, j \in 1..Len(order) : i < j => d[i] <= d[j]

\* a crawl visited pages at distances 0, 1, 1 and 2, in this order
C6_Witness ==
    /\ Len(order) = 4
    /\ Dist(order[1]) = 0 /\ Dist(order[2]) = 1
    /\ Dist(order[3]) = 1 /\ Dist(order[4]) = 2

\* the crawl loop is one sequential thread: it always takes its next step
FairSpec == Spec /\ WF_vars(Next)

FailedUrls == { l[2] : l \in log }

\* both output files of u are in place
HasBothFiles(u) ==
    /\ url_to_path(u, ".txt") \in DOMAIN files
    /\ url_to_path(u, ".clean.md") \in DOMAIN files

\* C8 as stated: once the scraping crawl has completed, every URL in visited
\* has had a raw-document file and a transduced-text file written at the
\* path derived from its URL path.
C8_EveryVisitedHasFiles ==
    (prog = "scraper" /\ pc = "done") => \A u \in visited : HasBothFiles(u)

\* C8 amended: once the scraping crawl has completed, every URL in visited
\* whose fetch did not fail has both files at the path derived from its URL
\* path, holding that page's document and its transduced text; the pages
\* counted as scraped are the visited URLs whose fetch did not fail.
C8_FetchedVisitedHaveFiles ==
    (prog = "scraper" /\ pc = "done")
      => /\ \A u \in visited \ FailedUrls :
               /\ HasBothFiles(u)
               /\ files[url_to_path(u, ".txt")][1] = "html"
               /\ files[url_to_path(u, ".clean.md")][1] = "md"
         /\ pages_scraped = Cardinality(visited \ FailedUrls)

\* a completed scraping crawl with one page saved and one fetch failed
C8_Witness ==
    /\ prog = "scraper" /\ pc = "done"
    /\ visited \ FailedUrls # {}
    /\ visited \cap FailedUrls # {}


---------------------------------------------------------------------------
(* Properties of the transducer *)

\* the lines of a rendered text
Lines(text) == split(text, "\n")

\* the number of spaces a line starts with
RECURSIVE LeadingSpaces(_)
LeadingSpaces(line) ==
    IF line # <<>> /\ Head(line) = " " THEN 1 + LeadingSpaces(Tail(line)) ELSE 0

\* the line is a bullet line indented for depth d
IsBulletLine(line, d) ==
    /\ LeadingSpaces(line) = 2 * d
    /\ Len(line) >= 2 * d + 2
    /\ SubSeq(line, 2 * d + 1, 2 * d + 2) = <<"-", " ">>

\* the number of li elements of the tree under node that lie d lists deep,
\* node itself being cur lists deep
RECURSIVE CountLi(_, _, _)
CountLi(node, cur, d) ==
    LET kids == node.children
        below == IF node.name = "ul" THEN cur + 1 ELSE cur
        F[i \in 0..Len(kids)] ==
            IF i = 0 THEN 0 ELSE F[i - 1] + CountLi(kids[i], below, d)
    IN  (IF node.name = "li" /\ cur = d + 1 THEN 1 ELSE 0) + F[Len(kids)]

\* C9: for every li nested inside a ul, at any nesting depth and also when
\* the first or only child of the li is a nested list, the rendered bullet of
\* the item starts its own line and is preceded by exactly 2 x depth spaces,
\* depth being 0 for the outermost list and one more per nested list.
C9_BulletIndentTwoPerDepth ==
    (pc = "rendered" /\ doc \in ListDocs)
      => \A d \in 0..MaxNest :
            Cardinality({ i \in 1..Len(Lines(md)) : IsBulletLine(Lines(md)[i], d) })
              = CountLi(doc, 0, d)

\* the heading, its text and the list of a document of HeadingDocs
HeadingOf(d) == d.children[1]

ListOf(d) == d.children[2]

\* the lines "- item" of the items, in order
ItemLines(list) ==
    [i \in 1..Len(list.children) |->
        <<"-", " ">> \o strip(list.children[i].children[1].text)]

\* C10: block_md at depth 0 of a container holding a level-n heading with
\* text T followed by an unordered list of k text-only items is n '#', a
\* space, T, a blank line, the items as "- item" lines joined by single
\* newlines, and a trailing blank line; <h2>Title</h2><ul><li>One</li>
\* <li>Two</li></ul> gives "## Title\n\n- One\n- Two\n\n".
C10_HeadingThenBullets ==
    (pc = "rendered" /\ doc \in HeadingDocs /\ ListOf(doc).name = "ul")
      => /\ md = repeat(<<"#">>, heading_level(HeadingOf(doc).name)) \o <<" ">>
                   \o HeadingOf(doc).children[1].text \o <<"\n", "\n">>
                   \o join(<<"\n">>, ItemLines(ListOf(doc))) \o <<"\n", "\n">>
         /\ doc = Tag("div", << Tag("h2", <<Text(<<"Title">>)>>),
                               FlatList("ul", 2, FALSE) >>)
               => md = << "#", "#", " ", "Title", "\n", "\n",
                          "-", " ", "One", "\n", "-", " ", "Two", "\n", "\n" >>

\* <h2>Title</h2><ul><li>One</li><li>Two</li></ul> has been rendered
C10_Witness ==
    /\ pc = "rendered"
    /\ doc = Tag("div", << Tag("h2", <<Text(<<"Title">>)>>), FlatList("ul", 2, FALSE) >>)
    /\ md = << "#", "#", " ", "Title", "\n", "\n",
               "-", " ", "One", "\n", "-", " ", "Two", "\n", "\n" >>

---------------------------------------------------------------------------
(* Properties of inline_md *)

\* the href is an absolute URL of scheme http or https
IsAbsoluteHttp(href) ==
    href # <<>> /\ Head(href) \in {"https://example.org/x", "http://example.org/"}

\* the display text of an anchor: its children rendered, then trimmed
DisplayText(node) == strip(inline_children(node))

\* C11: an anchor is rendered as [text](href) exactly when its href is an
\* absolute http or https URL that differs from its display text, and as
\* the display text alone in every other case.
C11_AnchorLinkIffAbsoluteHttp ==
    (prog = "transducer" /\ pc = "inlined") =>
        LET text == DisplayText(doc)
            href == strip(doc.href)
        IN  md = IF IsAbsoluteHttp(href) /\ href # text
                 THEN <<"[">> \o text \o <<"](">> \o href \o <<")">>
                 ELSE text

---------------------------------------------------------------------------
(* Properties of clean_html *)

\* the main-content region of a page: #main, else .main-content, else body
Region(html) ==
    IF html.main # <<>> THEN html.main
    ELSE IF html.main_content # <<>> THEN html.main_content ELSE html.body

\* the structural rendering of the region, trailing white space trimmed
Structural(html) == rstrip(block_md(Region(html)[1], 0))

\* the fallback extractor yields a non-empty text
FallbackYields(html) == ~ html.extract.none /\ html.extract.s # <<>>

\* C12: with a main-content region, clean_html returns the fallback
\* extractor's text when the structural rendering is shorter than 200
\* characters and the fallback text is non-empty; it returns the structural
\* rendering when that reaches 200 characters, or is shorter while the
\* fallback yields nothing.
C12_FallbackBelowThreshold ==
    (prog = "transducer" /\ pc = "cleaned" /\ Region(doc) # <<>>) =>
        /\ (len(Structural(doc)) < 200 /\ FallbackYields(doc))
              => md = doc.extract.s
        /\ (len(Structural(doc)) >= 200) => md = Structural(doc)
        /\ (len(Structural(doc)) < 200 /\ ~ FallbackYields(doc))
              => md = Structural(doc)

\* both sides of the threshold were taken: a rendering of 199 characters
\* was replaced by the fallback text
C12_Witness ==
    /\ prog = "transducer" /\ pc = "cleaned"
    /\ Region(doc) = <<Para("x199")>>
    /\ len(Structural(doc)) = 199
    /\ FallbackYields(doc)
    /\ md = doc.extract.s
    /\ md # Structural(doc)

---------------------------------------------------------------------------
(* Properties of the URL functions *)

\* the four checks of isInScope, each on its own
SchemeOk(u) == u.scheme \in {"http", "https"}

HostOk(u) == u.netloc = "sustainability.ucsc.edu"

PrefixOk(u) == u.path # <<>> /\ Head(u.path) = "/"

ExtensionOk(u) ==
    u.path = <<>> \/
    u.path[Len(u.path)] \notin {".pdf", ".doc", ".docx", ".ppt", ".pptx", ".xls",
                                ".xlsx", ".csv", ".zip", ".tar", ".gz", ".jpg",
                                ".jpeg", ".png", ".gif", ".PDF"}

\* the checks of the URL u that fail
FailedChecks(u) ==
    {c \in {"scheme", "host", "prefix", "extension"} :
        \/ c = "scheme" /\ ~ SchemeOk(u)
        \/ c = "host" /\ ~ HostOk(u)
        \/ c = "prefix" /\ ~ PrefixOk(u)
        \/ c = "extension" /\ ~ ExtensionOk(u)}

\* C13: is_internal and is_allowed return true exactly when the scheme is
\* http or https, the host is the target host, the path starts with the
\* allowed prefix and the lowercased path ends with no skipped extension;
\* one failing check makes the result false; the call changes nothing else.
C13_InScopeIffFourChecks ==
    [][ (pc' \in {"is_internal", "is_allowed"}) =>
          /\ ret'[1] = (FailedChecks(url) = {})
          /\ UNCHANGED <<prog, crawl_vars, tree, url, doc, md>> ]_vars

\* a URL failing the extension check alone, by an upper-case extension, was
\* rejected
C13_Witness ==
    /\ pc \in {"is_internal", "is_allowed"}
    /\ url.path = <<"/", "report", ".PDF">>
    /\ FailedChecks(url) = {"extension"}
    /\ ret = <<FALSE>>

\* C14: for every URL isInScope accepts, normalise applied to the result
\* of normalise returns that result again.
C14_NormaliseIdempotent ==
    (prog = "url" /\ pc = "normalise_again" /\ FailedChecks(url) = {}) =>
        ret[2] = ret[1]

\* an accepted URL with a fragment was changed by the first normalise and
\* left alone by the second
C14_Witness ==
    /\ prog = "url" /\ pc = "normalise_again"
    /\ FailedChecks(url) = {}
    /\ url.fragment = "top"
    /\ ret[1] # url
    /\ ret[2] = ret[1]

\* the path is empty or ends with "/"
IsDirectoryPath(path) == path = <<>> \/ path[Len(path)] = "/"

\* the segments of a path whose empty final segment reads "index"
IndexSegments(path) ==
    LET segs == split(lstrip_slash(path), "/")
    IN  [i \in 1..Len(segs) |->
            IF i = Len(segs) /\ segs[i] = <<>> THEN <<"index">> ELSE segs[i]]

\* the longest key path of a tree holding one branch
Branch(t) == CHOOSE k \in t : \A other \in t : Len(other) <= Len(k)

\* C15: insert_path and url_to_path both map an empty path and a path
\* ending in "/" to segments ending in "index": "" and "/" to the single
\* segment index, "/about/" to about, index.
C15_DirectoryPathGetsIndex ==
    (prog = "url" /\ IsDirectoryPath(url.path)) =>
        /\ pc = "insert_path" => Branch(tree) = IndexSegments(url.path)
        /\ pc = "url_to_path" =>
              split(SubSeq(ret[1], 1, Len(ret[1]) - 1), "/") = IndexSegments(url.path)

\* C18: is_internal and is_allowed return the same verdict for every URL.
C18_ScopePredicatesAgree ==
    /\ (prog = "url" /\ pc = "is_internal") => ret[1] = is_allowed(url)
    /\ (prog = "url" /\ pc = "is_allowed") => ret[1] = is_internal(url)

\* is_allowed rejected a URL for its extension, which is_internal tests
\* only after the prefix
C18_Witness ==
    /\ prog = "url" /\ pc = "is_allowed"
    /\ url.path = <<"/", "report", ".pdf">>
    /\ SchemeOk(url) /\ HostOk(url)
    /\ ret = <<FALSE>>
    /\ is_internal(url) = FALSE

---------------------------------------------------------------------------
(* The URLs the crawl holds *)

\* C17: every URL in the frontier or in visited has no fragment, scheme
\* http or https and the target host; every one of them that is not a seed
\* is in scope.
C17_HeldUrlsWellFormed ==
    \A u \in Range(frontier) \cup visited :
        /\ u.fragment = ""
        /\ u.scheme \in {"http", "https"}
        /\ u.netloc = "sustainability.ucsc.edu"
        /\ u \notin Seeds => FailedChecks(u) = {}

\* a link found with a fragment is held without it, next to a visited seed
C17_Witness ==
    /\ NewsTop \in Range(hrefs) \/ \E e \in discovered : e[2] = NewsTop
    /\ News \in Range(frontier) \cup visited
    /\ News \notin Seeds
    /\ visited \cap Seeds # {}

---------------------------------------------------------------------------
(* The renderer over a whole crawl *)

\* crawl() has returned or an exception has left it
Over == pc \in {"done", "failed"}

\* C16: the renderer is acquired once per crawl and in the end released
\* once, also when an exception that no handler catches leaves the loop.
C16_RendererReleasedOnce ==
    /\ [](session.entered <= 1 /\ session.exited <= session.entered)
    /\ [](pc \notin {"start"} => session.entered = 1)
    /\ [](Over => (session.exited = 1 /\ session.pw = "stopped"
                     /\ session.browser # "open"))
    /\ <>[](Over /\ session.entered = 1 /\ session.exited = 1)

\* an exception left the loop of a crawl that had fetched a page, and the
\* renderer was released once without browser.close() being reached
C16_Witness ==
    /\ pc = "failed"
    /\ visited # {}
    /\ session.entered = 1 /\ session.exited = 1
    /\ session.pw = "stopped" /\ session.browser = "killed"

====
